---- MODULE Spec2Model ----
(***************************************************************************)
(* Model of the package bundling code of the management SDK                *)
(* (AccountManager.packageFileFromPath and generateRandomFilename in       *)
(* src/src/script/management-sdk.ts), together with the parts of the Node  *)
(* runtime it drives: the path module, the file system, recursive-fs'      *)
(* readdirr, the yazl ZipFile, the fs.WriteStream behind the pipe, and the *)
(* Promise that carries the result.                                        *)
(*                                                                         *)
(* A string is a sequence of one-character strings, so that the path       *)
(* functions, slash and the file name generator work on characters as the  *)
(* code does.                                                              *)
(***************************************************************************)
EXTENDS Naturals, Sequences, FiniteSets

VARIABLES
    platform,   \* "posix" or "win32": which path module and separator the host has
    deleted,    \* source files removed from the tree since the start
    disk,       \* files in the working directory: absolute path -> content and writers
    pc,         \* per call: "idle", "scanning", "streaming", "done"
    input,      \* per call: the path the caller passed
    filePath,   \* per call: the parameter filePath (reassigned at line 344)
    outcome,    \* per call: what the caller of packageFileFromPath has got
    scan,       \* per call: what readdirr handed to its callback
    fileName,   \* per call: the generated archive name (line 335)
    zip,        \* per call: the yazl ZipFile
    ws,         \* per call: the fs.WriteStream
    appName,    \* the app name handed to appNameParam
    appParam    \* what appNameParam returned for it, once it has

vars == <<platform, deleted, disk, pc, input, filePath, outcome, scan, fileName, zip, ws,
          appName, appParam>>

----------------------------------------------------------------------------
(* Bounds of the model. *)

\* Number of different outcomes of the random source behind a generated name.
NumSeeds == 2

\* Number of source files the environment may delete during a run.
MaxDeletes == 1

\* Longest app name handed to appNameParam.
MaxNameLen == 4

\* The calls of packageFileFromPath.  Calls share nothing but the files of the
\* working directory: Spec follows one call, with or without a foreign file at
\* the name it generates, and SpecPair follows two overlapping calls.
Calls == {1}
PairCalls == {1, 2}

----------------------------------------------------------------------------
(* Strings. *)

RECURSIVE JoinSegs(_, _)
\* Array.prototype.join: the segments with sp between them.
JoinSegs(segs, sp) ==
    IF segs = <<>> THEN <<>>
    ELSE IF Len(segs) = 1 THEN segs[1]
    ELSE segs[1] \o sp \o JoinSegs(Tail(segs), sp)

Last(s) == s[Len(s)]
Front(s) == SubSeq(s, 1, Len(s) - 1)

----------------------------------------------------------------------------
(* The path module of the host (path.posix or path.win32).  Drive letters  *)
(* appear as the three-character root C:\ ; UNC roots and drive-relative   *)
(* paths (C:foo) are not among the inputs of the model.                    *)

IsSep(ch) == ch = "/" \/ (platform = "win32" /\ ch = "\\")

sep == IF platform = "win32" THEN "\\" ELSE "/"

HasDrive(s) == platform = "win32" /\ Len(s) >= 3 /\ s[2] = ":" /\ IsSep(s[3])

RootLen(s) ==
    IF HasDrive(s) THEN 3
    ELSE IF Len(s) >= 1 /\ IsSep(s[1]) THEN 1 ELSE 0

\* The root of s with the host's separator.
RootOf(s) ==
    IF HasDrive(s) THEN <<s[1], s[2], sep>>
    ELSE IF RootLen(s) = 1 THEN <<sep>> ELSE <<>>

RECURSIVE SplitFrom(_, _, _, _)
SplitFrom(s, i, cur, acc) ==
    LET flush == IF cur = <<>> THEN acc ELSE Append(acc, cur)
    IN  IF i > Len(s) THEN flush
        ELSE IF IsSep(s[i]) THEN SplitFrom(s, i + 1, <<>>, flush)
        ELSE SplitFrom(s, i + 1, Append(cur, s[i]), acc)

\* The non-empty segments of s behind its root.
Segments(s) == SplitFrom(s, RootLen(s) + 1, <<>>, <<>>)

Dot == <<".">>
DotDot == <<".", ".">>

RECURSIVE NormalizeArray(_, _, _)
\* normalizeString: resolves "." and ".." segments.
NormalizeArray(segs, allowAboveRoot, acc) ==
    IF segs = <<>> THEN acc
    ELSE LET h == Head(segs) IN
         IF h = Dot THEN NormalizeArray(Tail(segs), allowAboveRoot, acc)
         ELSE IF h = DotDot THEN
              IF acc # <<>> /\ Last(acc) # DotDot
              THEN NormalizeArray(Tail(segs), allowAboveRoot, Front(acc))
              ELSE IF allowAboveRoot
                   THEN NormalizeArray(Tail(segs), allowAboveRoot, Append(acc, h))
                   ELSE NormalizeArray(Tail(segs), allowAboveRoot, acc)
         ELSE NormalizeArray(Tail(segs), allowAboveRoot, Append(acc, h))

\* path.normalize
normalize(s) ==
    IF s = <<>> THEN Dot
    ELSE LET isAbs    == RootLen(s) > 0
             trailing == IsSep(Last(s)) /\ Len(s) > RootLen(s)
             body     == JoinSegs(NormalizeArray(Segments(s), ~isAbs, <<>>), <<sep>>)
             body2    == IF body = <<>> /\ ~isAbs THEN Dot ELSE body
             body3    == IF body2 # <<>> /\ trailing THEN Append(body2, sep) ELSE body2
         IN  RootOf(s) \o body3

\* path.join of two arguments
join(a, b) ==
    IF a = <<>> /\ b = <<>> THEN Dot
    ELSE IF a = <<>> THEN normalize(b)
    ELSE IF b = <<>> THEN normalize(a)
    ELSE normalize(a \o <<sep>> \o b)

\* path.dirname
dirname(s) ==
    IF s = <<>> THEN Dot
    ELSE LET r == RootLen(s)
             \* the end of s without its trailing separators (never into the root)
             e == IF \E i \in (r + 1)..Len(s) : ~IsSep(s[i])
                  THEN CHOOSE i \in (r + 1)..Len(s) :
                         /\ ~IsSep(s[i])
                         /\ \A j \in (i + 1)..Len(s) : IsSep(s[j])
                  ELSE r
             \* the last separator before that end
             cut == IF \E i \in (r + 1)..e : IsSep(s[i])
                    THEN CHOOSE i \in (r + 1)..e :
                           /\ IsSep(s[i])
                           /\ \A j \in (i + 1)..e : ~IsSep(s[j])
                    ELSE 0
         IN  IF cut = 0
             THEN (IF r > 0 THEN SubSeq(s, 1, r) ELSE Dot)
             ELSE SubSeq(s, 1, cut - 1)

\* process.cwd(): the working directory of the process.  Nothing in the
\* repository changes it.
process_cwd ==
    IF platform = "win32" THEN <<"C", ":", "\\", "r", "\\", "w">>
    ELSE <<"/", "r", "/", "w">>

\* path.resolve(s) as root and segments.
pathResolve(s) ==
    LET base == IF RootLen(s) > 0 THEN <<>> ELSE Segments(process_cwd)
        root == IF RootLen(s) = 0 \/ (platform = "win32" /\ ~HasDrive(s))
                THEN RootOf(process_cwd) ELSE RootOf(s)
    IN  [root |-> root, segs |-> NormalizeArray(base \o Segments(s), FALSE, <<>>)]

ResolvedStr(r) == r.root \o JoinSegs(r.segs, <<sep>>)

RECURSIVE CommonPrefix(_, _)
CommonPrefix(a, b) ==
    IF a = <<>> \/ b = <<>> \/ Head(a) # Head(b) THEN 0
    ELSE 1 + CommonPrefix(Tail(a), Tail(b))

\* path.relative(from, to)
relative(from, to) ==
    LET rf == pathResolve(from)
        rt == pathResolve(to)
        k  == CommonPrefix(rf.segs, rt.segs)
        ups == [i \in 1..(Len(rf.segs) - k) |-> DotDot]
    IN  IF rf.root # rt.root THEN ResolvedStr(rt)
        ELSE JoinSegs(ups \o SubSeq(rt.segs, k + 1, Len(rt.segs)), <<sep>>)

\* slash(): every backslash becomes a forward slash.
slash(s) == [i \in 1..Len(s) |-> IF s[i] = "\\" THEN "/" ELSE s[i]]

----------------------------------------------------------------------------
(* The file system.  The tree is                                           *)
(*     /r/g          a file beside the working directory                   *)
(*     /r/w          the working directory                                 *)
(*     /r/w/f        a file                                                *)
(*     /r/w/p/a      a file                                                *)
(*     /r/w/p/s/b    a file                                                *)
(*     /r/w/e        an empty directory                                    *)
(*     /r/w/l        a symbolic link to /r/w/e                             *)
(* and a node is named by its segments below the root.                     *)

N(x) == <<x>>

DirR == <<N("r")>>
DirW == <<N("r"), N("w")>>
DirP == <<N("r"), N("w"), N("p")>>
DirS == <<N("r"), N("w"), N("p"), N("s")>>
DirE == <<N("r"), N("w"), N("e")>>

TreeDirs  == { <<>>, DirR, DirW, DirP, DirS, DirE }
TreeFiles == { Append(DirR, N("g")), Append(DirW, N("f")), Append(DirP, N("a")),
               Append(DirS, N("b")) }
TreeLinks == { Append(DirW, N("l")) }

\* The order in which fs.readdir lists a directory.
Listing(d) ==
    IF d = <<>> THEN <<N("r")>>
    ELSE IF d = DirR THEN <<N("g"), N("w")>>
    ELSE IF d = DirW THEN <<N("e"), N("f"), N("l"), N("p")>>
    ELSE IF d = DirP THEN <<N("a"), N("s")>>
    ELSE IF d = DirS THEN <<N("b")>>
    ELSE <<>>

\* fs.lstat: the type of the node itself; "missing" makes the call fail.
lstatKind(s) ==
    LET n == pathResolve(s).segs IN
    IF n \in TreeDirs THEN "directory"
    ELSE IF n \in TreeFiles /\ n \notin deleted
              /\ ~(Len(s) > 0 /\ IsSep(Last(s))) THEN "file"
    ELSE IF n \in TreeLinks /\ ~(Len(s) > 0 /\ IsSep(Last(s))) THEN "symlink"
    ELSE "missing"

\* fs.stat: as lstat, but a link is followed to its target.
statKind(s) ==
    LET k == lstatKind(s) IN IF k = "symlink" THEN "directory" ELSE k

\* fs.readdir of the directory s names: the entries that still exist.
readdir(s) ==
    LET n == pathResolve(s).segs
        l == IF n \in TreeLinks THEN <<>> ELSE Listing(n)
    IN  SelectSeq(l, LAMBDA x : Append(n, x) \notin deleted)

RECURSIVE Walk(_, _, _)
\* recursive-fs readdirr: directories are read in the order they were found;
\* each entry is path.join(directory, name) and goes to the directories when
\* fs.stat says it is one, to the files otherwise.
Walk(dirs, index, files) ==
    IF index > Len(dirs) THEN files
    ELSE LET d     == dirs[index]
             names == readdir(d)
             paths == [i \in 1..Len(names) |-> join(d, names[i])]
         IN  Walk(dirs \o SelectSeq(paths, LAMBDA x : statKind(x) = "directory"),
                  index + 1,
                  files \o SelectSeq(paths, LAMBDA x : statKind(x) # "directory"))

\* The files argument of the readdirr callback for directoryPath.
readdirr(directoryPath) == Walk(<<directoryPath>>, 1, <<>>)

----------------------------------------------------------------------------
(* generateRandomFilename *)

\* Denominator of the values Math.random() takes in the model: k / RandomRes.
RandomRes == 1000

validChar ==
    << "A","B","C","D","E","F","G","H","I","J","K","L","M",
       "N","O","P","Q","R","S","T","U","V","W","X","Y","Z",
       "a","b","c","d","e","f","g","h","i","j","k","l","m",
       "n","o","p","q","r","s","t","u","v","w","x","y","z",
       "0","1","2","3","4","5","6","7","8","9" >>

\* String.prototype.charAt: the empty string outside the string.
charAt(str, k) == IF k < Len(str) THEN <<str[k + 1]>> ELSE <<>>

\* The numerator of the i-th value Math.random() returns in the run named by
\* seed; the first one is the largest value below 1.
Random(seed, i) == (RandomRes - 1 + i * (13 * seed + 4)) % RandomRes

\* Mutant of RandomIndex: Math.round instead of Math.floor.
RandomIndexRounded(seed, i) ==
    (2 * Random(seed, i) * Len(validChar) + RandomRes) \div (2 * RandomRes)

\* Math.floor(Math.random() * validChar.length)
RandomIndex(seed, i) == (Random(seed, i) * Len(validChar)) \div RandomRes

RECURSIVE GenLoop(_, _, _, _)
GenLoop(i, length, filename, seed) ==
    IF i < length
    THEN GenLoop(i + 1, length, filename \o charAt(validChar, RandomIndex(seed, i)), seed)
    ELSE filename

generateRandomFilename(length, seed) == GenLoop(0, length, <<>>, seed)

\* The length packageFileFromPath asks for.
FilenameLength == 15

ZipSuffix == <<".", "z", "i", "p">>

----------------------------------------------------------------------------
(* The promise packageFileFromPath returns. *)

NoPath == <<>>

NotCalled == [kind |-> "none", isTemporary |-> FALSE, path |-> NoPath, error |-> "none"]
Pending   == [kind |-> "pending", isTemporary |-> FALSE, path |-> NoPath, error |-> "none"]
Thrown(e) == [kind |-> "thrown", isTemporary |-> FALSE, path |-> NoPath, error |-> e]

\* resolve(file) and reject(reason) of a promise: only the first one settles it.
PromiseResolve(o, file) ==
    IF o.kind = "pending"
    THEN [kind |-> "resolved", isTemporary |-> file.isTemporary, path |-> file.path,
          error |-> "none"]
    ELSE o

PromiseReject(o, reason) ==
    IF o.kind = "pending"
    THEN [kind |-> "rejected", isTemporary |-> FALSE, path |-> NoPath, error |-> reason]
    ELSE o

----------------------------------------------------------------------------
(* The pieces of packageFileFromPath. *)

\* Mutant of lstatIsDirectory: a failing stat counts as "not a directory".
lstatIsDirectoryOrFalse(p, denied) ==
    IF denied \/ lstatKind(p) = "missing" THEN "other"
    ELSE IF lstatKind(p) = "directory" THEN "directory" ELSE "other"

\* fs.lstatSync(filePath).isDirectory(): "throw", "directory" or "other".
\* denied says that the host refuses the stat (EACCES).
lstatIsDirectory(p, denied) ==
    IF denied \/ lstatKind(p) = "missing" THEN "throw"
    ELSE IF lstatKind(p) = "directory" THEN "directory" ELSE "other"

StatError(p, denied) == IF denied THEN "EACCES" ELSE "ENOENT"

\* Mutant of FileResult: the path is made absolute as for an archive.
FileResultAbsolute(p) == [isTemporary |-> FALSE, path |-> join(process_cwd, p)]

\* The value the else branch resolves with (line 364).
FileResult(p) == [isTemporary |-> FALSE, path |-> p]

\* Mutant of ScanFailed: the error of the scan is not looked at.
ScanErrorIgnored(error) == FALSE

\* if (error) { reject(error); return; }
ScanFailed(error) == error # "none"

\* this.generateRandomFilename(15) + ".zip"
TempFileName(seed) == generateRandomFilename(FilenameLength, seed) \o ZipSuffix

\* Mutant of StreamPath: every call writes one fixed temporary name.
StreamPathFixed(name) == <<"t", "m", "p">> \o ZipSuffix

\* The path given to fs.createWriteStream (line 337).
StreamPath(name) == name

\* slash(path.relative(baseDirectoryPath, file))
EntryName(baseDirectoryPath, file) == slash(relative(baseDirectoryPath, file))

\* yazl's validateMetadataPath: the error it throws, or "none".
validateMetadataPath(mp) ==
    LET m == slash(mp) IN
    IF m = <<>> THEN "empty metadataPath"
    ELSE IF m[1] = "/" \/ (Len(m) >= 2 /\ m[2] = ":") THEN "absolute path"
    ELSE IF \E i \in 1..Len(Segments(m)) : Segments(m)[i] = DotDot
         THEN "invalid relative path"
    ELSE "none"

RECURSIVE AddFilesButLast(_, _, _, _)
\* Mutant of AddFiles: the loop ends one file early (i < files.length - 1).
AddFilesButLast(i, files, baseDirectoryPath, entries) ==
    IF i + 1 < Len(files)
    THEN LET file         == files[i + 1]
             relativePath == EntryName(baseDirectoryPath, file)
             err          == validateMetadataPath(relativePath)
         IN  IF err # "none"
             THEN [entries |-> entries, threw |-> err]
             ELSE AddFilesButLast(i + 1, files, baseDirectoryPath,
                                  Append(entries, [realPath |-> file,
                                                   metadataPath |-> relativePath]))
    ELSE [entries |-> entries, threw |-> "none"]

RECURSIVE AddFiles(_, _, _, _)
\* The loop over files: zipFile.addFile(file, relativePath) for each, until one
\* throws.  The result is the entries added and the error thrown, if any.
AddFiles(i, files, baseDirectoryPath, entries) ==
    IF i < Len(files)
    THEN LET file         == files[i + 1]
             relativePath == EntryName(baseDirectoryPath, file)
             err          == validateMetadataPath(relativePath)
         IN  IF err # "none"
             THEN [entries |-> entries, threw |-> err]
             ELSE AddFiles(i + 1, files, baseDirectoryPath,
                           Append(entries, [realPath |-> file,
                                            metadataPath |-> relativePath]))
    ELSE [entries |-> entries, threw |-> "none"]

\* Mutant of CloseEvent: the handler is registered for "finish".
CloseEventFinish == "finish"

\* The event whose handler resolves the promise (line 343).
CloseEvent == "close"

\* Mutant of OnError: the handler does not reject.
OnErrorSwallowed(o, error) == o

\* The handler of "error" (lines 340-342).
OnError(o, error) == PromiseReject(o, error)

\* path.join(process.cwd(), fileName)
ClosePath(name) == join(process_cwd, name)

\* The handler of "close" (lines 343-347).
OnClose(o, name) == PromiseResolve(o, [isTemporary |-> TRUE, path |-> ClosePath(name)])

\* What an event of the write stream does to the promise.
OnStreamEvent(o, ev, error, name) ==
    IF ev = "error" THEN OnError(o, error)
    ELSE IF ev = CloseEvent THEN OnClose(o, name)
    ELSE o

\* The parameter filePath after an event of the write stream.
FilePathAfter(fp, ev, name) == IF ev = CloseEvent THEN ClosePath(name) ELSE fp

----------------------------------------------------------------------------
(* State. *)

NoScan == [called |-> FALSE, error |-> "none", directoryPath |-> NoPath, files |-> <<>>,
           baseDirectoryPath |-> NoPath]
NoZip  == [state |-> "none", entries |-> <<>>, endCalled |-> FALSE, out |-> <<>>,
           uncaught |-> "none"]
NoWs   == [state |-> "none", path |-> NoPath, opened |-> NoPath, error |-> "none",
           clobbered |-> FALSE]

Root == IF platform = "win32" THEN <<"C", ":", "\\">> ELSE <<"/">>

\* The paths a caller passes.
InputPaths ==
    { <<"p">>, <<"p", sep>>, <<".">>, <<".", ".">>, Root,
      Root \o <<"r", sep, "w", sep, "p">>, <<"e">>, <<"f">>, <<"l">>, <<"x">> }

ScanErrors == {"EACCES"}

Seeds == 1..NumSeeds

\* A file of somebody else in the working directory, under a name the
\* generator can produce.
ForeignFile == [content |-> <<[by |-> 0, chunk |-> <<"u">>]>>, open |-> {}]

\* appNameParam has not returned.
NotReturned == [returned |-> FALSE, value |-> <<>>]

InitWith(cs, platforms, disks) ==
    /\ platform \in platforms
    /\ deleted = {}
    /\ disk \in disks
    /\ pc = [c \in cs |-> "idle"]
    /\ input = [c \in cs |-> NoPath]
    /\ filePath = [c \in cs |-> NoPath]
    /\ outcome = [c \in cs |-> NotCalled]
    /\ scan = [c \in cs |-> NoScan]
    /\ fileName = [c \in cs |-> NoPath]
    /\ zip = [c \in cs |-> NoZip]
    /\ ws = [c \in cs |-> NoWs]
    /\ appName = <<>>
    /\ appParam = NotReturned

Init ==
    InitWith(Calls, {"posix", "win32"},
             { <<>>, [x \in {ClosePath(TempFileName(1))} |-> ForeignFile] })

InitPair == InitWith(PairCalls, {"posix"}, { <<>> })

----------------------------------------------------------------------------
(* The files of the working directory. *)

\* open(path, O_WRONLY | O_CREAT | O_TRUNC) by call c: the flags "w" that
\* fs.createWriteStream uses when none are given.
DiskOpen(d, path, c) ==
    [x \in DOMAIN d \cup {path} |->
        IF x = path
        THEN [content |-> <<>>,
              open    |-> (IF x \in DOMAIN d THEN d[x].open ELSE {}) \cup {c}]
        ELSE d[x]]

DiskWrite(d, path, c, chunk) ==
    [d EXCEPT ![path].content = Append(@, [by |-> c, chunk |-> chunk])]

DiskClose(d, path, c) == [d EXCEPT ![path].open = @ \ {c}]

EndOfArchive == <<"E", "O", "C", "D">>

----------------------------------------------------------------------------
(* Actions. *)

\* packageFileFromPath(p) up to its return (lines 322-368): the stat, and
\* either the start of the directory scan or the resolved promise.
Call(c, p, denied) ==
    /\ pc[c] = "idle"
    /\ input' = [input EXCEPT ![c] = p]
    /\ filePath' = [filePath EXCEPT ![c] = p]
    /\ LET st == lstatIsDirectory(p, denied) IN
       IF st = "throw"
       THEN /\ outcome' = [outcome EXCEPT ![c] = Thrown(StatError(p, denied))]
            /\ pc' = [pc EXCEPT ![c] = "done"]
            /\ scan' = scan
       ELSE IF st = "directory"
       THEN /\ outcome' = [outcome EXCEPT ![c] = Pending]
            /\ pc' = [pc EXCEPT ![c] = "scanning"]
            /\ scan' = [scan EXCEPT ![c].directoryPath = p]
       ELSE /\ outcome' = [outcome EXCEPT ![c] = PromiseResolve(Pending, FileResult(p))]
            /\ pc' = [pc EXCEPT ![c] = "done"]
            /\ scan' = scan
    /\ UNCHANGED <<appName, appParam, platform, deleted, disk, fileName, zip, ws>>

\* The callback of readdirr (lines 328-360), run with error, or with the
\* files found; seed names the values Math.random() returns in it.
ReaddirrCallback(c, error, seed) ==
    /\ pc[c] = "scanning"
    /\ IF ScanFailed(error)
       THEN /\ outcome' = [outcome EXCEPT ![c] = PromiseReject(@, error)]
            /\ scan' = [scan EXCEPT ![c].called = TRUE, ![c].error = error]
            /\ pc' = [pc EXCEPT ![c] = "done"]
            /\ UNCHANGED <<fileName, zip, ws>>
       ELSE LET files == readdirr(scan[c].directoryPath)
                base  == dirname(scan[c].directoryPath)
                name  == TempFileName(seed)
                added == AddFiles(0, files, base, <<>>)
            IN  /\ scan' = [scan EXCEPT ![c] =
                              [called |-> TRUE, error |-> error,
                               directoryPath |-> scan[c].directoryPath,
                               files |-> files, baseDirectoryPath |-> base]]
                /\ fileName' = [fileName EXCEPT ![c] = name]
                /\ ws' = [ws EXCEPT ![c] =
                            [state |-> "opening", path |-> StreamPath(name), opened |-> NoPath,
                             error |-> "none", clobbered |-> FALSE]]
                /\ zip' = [zip EXCEPT ![c] =
                             [state |-> "open", entries |-> added.entries,
                              endCalled |-> added.threw = "none", out |-> <<>>,
                              uncaught |-> added.threw]]
                /\ pc' = [pc EXCEPT ![c] = "streaming"]
                /\ outcome' = outcome
    /\ UNCHANGED <<appName, appParam, platform, deleted, disk, input, filePath>>

\* The write stream's open succeeds: the relative name is resolved against
\* the working directory, the file is created or truncated.
WsOpen(c) ==
    /\ ws[c].state = "opening"
    /\ LET abs == ResolvedStr(pathResolve(ws[c].path)) IN
       /\ ws' = [ws EXCEPT ![c].state = "open", ![c].opened = abs,
                           ![c].clobbered = abs \in DOMAIN disk]
       /\ disk' = DiskOpen(disk, abs, c)
    /\ UNCHANGED <<appName, appParam, platform, deleted, pc, input, filePath, outcome, scan, fileName, zip>>

\* yazl reads the next entry's source file and writes the entry to its output
\* stream, which the pipe writes to the file.
ZipEntry(c) ==
    /\ zip[c].state = "open"
    /\ ws[c].state = "open"
    /\ Len(zip[c].out) < Len(zip[c].entries)
    /\ LET e == zip[c].entries[Len(zip[c].out) + 1] IN
       /\ statKind(e.realPath) = "file"
       /\ zip' = [zip EXCEPT ![c].out = Append(@, e.metadataPath)]
       /\ disk' = DiskWrite(disk, ws[c].opened, c, e.metadataPath)
    /\ UNCHANGED <<appName, appParam, platform, deleted, pc, input, filePath, outcome, scan, fileName, ws>>

\* yazl cannot stat or read the source file of an entry it has not written
\* yet: the ZipFile emits "error", for which nobody listens, so the error is
\* thrown out of the I/O callback and the archive is never ended.
ZipEntryError(c) ==
    /\ zip[c].state = "open"
    /\ \E j \in (Len(zip[c].out) + 1)..Len(zip[c].entries) :
          statKind(zip[c].entries[j].realPath) # "file"
    /\ zip' = [zip EXCEPT ![c].state = "failed", ![c].uncaught = "ENOENT"]
    /\ UNCHANGED <<appName, appParam, platform, deleted, disk, pc, input, filePath, outcome, scan, fileName, ws>>

\* After zipFile.end() and the last entry, yazl writes the central directory
\* and ends its output stream; the pipe ends the write stream.
ZipEnd(c) ==
    /\ zip[c].state = "open"
    /\ ws[c].state = "open"
    /\ zip[c].endCalled
    /\ Len(zip[c].out) = Len(zip[c].entries)
    /\ zip' = [zip EXCEPT ![c].state = "ended"]
    /\ disk' = DiskWrite(disk, ws[c].opened, c, EndOfArchive)
    /\ UNCHANGED <<appName, appParam, platform, deleted, pc, input, filePath, outcome, scan, fileName, ws>>

\* The write stream emits ev; the handlers of lines 340-347 run.
Emit(c, ev, error) ==
    /\ outcome' = [outcome EXCEPT ![c] = OnStreamEvent(@, ev, error, fileName[c])]
    /\ filePath' = [filePath EXCEPT ![c] = FilePathAfter(@, ev, fileName[c])]
    /\ pc' = [pc EXCEPT ![c] = IF ev \in {"close", "error"} THEN "done" ELSE @]

\* The ended write stream has flushed everything: "finish".
WsFinish(c) ==
    /\ ws[c].state = "open"
    /\ zip[c].state = "ended"
    /\ ws' = [ws EXCEPT ![c].state = "finished"]
    /\ Emit(c, "finish", "none")
    /\ UNCHANGED <<appName, appParam, platform, deleted, disk, input, scan, fileName, zip>>

\* The file descriptor is closed: "close".
WsClose(c) ==
    /\ ws[c].state = "finished"
    /\ ws' = [ws EXCEPT ![c].state = "closed"]
    /\ disk' = DiskClose(disk, ws[c].opened, c)
    /\ Emit(c, "close", "none")
    /\ UNCHANGED <<appName, appParam, platform, deleted, input, scan, fileName, zip>>

\* The open or a write fails: the stream is destroyed and emits "error".
WsError(c) ==
    /\ ws[c].state \in {"opening", "open"}
    /\ LET e == IF ws[c].state = "opening" THEN "EACCES" ELSE "ENOSPC" IN
       /\ ws' = [ws EXCEPT ![c].state = "errored", ![c].error = e]
       /\ disk' = IF ws[c].state = "open" THEN DiskClose(disk, ws[c].opened, c) ELSE disk
       /\ Emit(c, "error", e)
    /\ UNCHANGED <<appName, appParam, platform, deleted, input, scan, fileName, zip>>

\* A destroyed stream emits "close" after its "error".
WsCloseAfterError(c) ==
    /\ ws[c].state = "errored"
    /\ ws' = [ws EXCEPT ![c].state = "errclosed"]
    /\ Emit(c, "close", "none")
    /\ UNCHANGED <<appName, appParam, platform, deleted, disk, input, scan, fileName, zip>>

\* Somebody deletes a source file.
DeleteSource(f) ==
    /\ f \in TreeFiles \ deleted
    /\ Cardinality(deleted) < MaxDeletes
    /\ deleted' = deleted \cup {f}
    /\ UNCHANGED <<appName, appParam, platform, disk, pc, input, filePath, outcome, scan, fileName, zip, ws>>

Active == DOMAIN pc

Next ==
    \/ \E c \in Active, p \in InputPaths, denied \in BOOLEAN : Call(c, p, denied)
    \/ \E c \in Active, error \in ScanErrors : ReaddirrCallback(c, error, 1)
    \/ \E c \in Active, seed \in Seeds : ReaddirrCallback(c, "none", seed)
    \/ \E c \in Active : WsOpen(c)
    \/ \E c \in Active : ZipEntry(c)
    \/ \E c \in Active : ZipEntryError(c)
    \/ \E c \in Active : ZipEnd(c)
    \/ \E c \in Active : WsFinish(c)
    \/ \E c \in Active : WsClose(c)
    \/ \E c \in Active : WsError(c)
    \/ \E c \in Active : WsCloseAfterError(c)
    \/ \E f \in TreeFiles : DeleteSource(f)

Spec == Init /\ [][Next]_vars

\* Two overlapping calls on the directories p and e, without failures of the
\* environment.
PairInputs == { <<"p">>, <<"e">> }

NextPair ==
    \/ \E c \in Active, p \in PairInputs : Call(c, p, FALSE)
    \/ \E c \in Active, seed \in Seeds : ReaddirrCallback(c, "none", seed)
    \/ \E c \in Active : WsOpen(c)
    \/ \E c \in Active : ZipEntry(c)
    \/ \E c \in Active : ZipEnd(c)
    \/ \E c \in Active : WsFinish(c)
    \/ \E c \in Active : WsClose(c)

SpecPair == InitPair /\ [][NextPair]_vars

----------------------------------------------------------------------------
(* Properties. *)

ResolvedTemporary(c) == outcome[c].kind = "resolved" /\ outcome[c].isTemporary

\* C1: whenever a call has delivered a descriptor with isTemporary = TRUE, its
\* write stream has emitted "close", the ZipFile was ended and has written
\* every entry and the end of the archive, the file at the descriptor's path
\* exists, is no longer held open by the call, and is the file the write
\* stream opened under the relative generated name.
C1_TemporaryArchiveClosed ==
    \A c \in Active :
        ResolvedTemporary(c) =>
            /\ ws[c].state = "closed"
            /\ zip[c].state = "ended"
            /\ zip[c].endCalled
            /\ Len(zip[c].out) = Len(zip[c].entries)
            /\ outcome[c].path \in DOMAIN disk
            /\ outcome[c].path = ws[c].opened
            /\ c \notin disk[outcome[c].path].open

C1_Witness ==
    \E c \in Active :
        /\ ResolvedTemporary(c)
        /\ Len(zip[c].entries) >= 2
        /\ platform = "win32"

\* C2: when yazl cannot read a source file the scan listed, the call has
\* failed with that error: its promise is rejected.
C2_UnreadableSourceRejects ==
    \A c \in Active :
        zip[c].state = "failed" =>
            /\ outcome[c].kind = "rejected"
            /\ outcome[c].error = zip[c].uncaught

\* C3: a call whose input exists and is not a directory resolves, in the
\* step of the call, with the input path unchanged and isTemporary = FALSE,
\* and neither the files of the working directory nor the source tree change;
\* the call has no scan, no name, no archive and no write stream.
C3_SingleFilePassThrough ==
    [][\A c \in Active :
          ( /\ pc[c] = "idle"
            /\ pc'[c] # "idle"
            /\ lstatKind(input'[c]) \notin {"directory", "missing"}
            /\ outcome'[c].kind # "thrown" )
          => /\ outcome'[c] = [kind |-> "resolved", isTemporary |-> FALSE,
                               path |-> input'[c], error |-> "none"]
             /\ pc'[c] = "done"
             /\ disk' = disk
             /\ deleted' = deleted
             /\ scan'[c] = NoScan /\ fileName'[c] = NoPath
             /\ zip'[c] = NoZip /\ ws'[c] = NoWs]_vars

C3_Witness ==
    \E c \in Active :
        /\ outcome[c].kind = "resolved"
        /\ ~outcome[c].isTemporary
        /\ outcome[c].path = <<"l">>
        /\ disk # <<>>

\* C4 as stated: no call opens a destination that already exists, and no file
\* is held open for writing by two calls at once.
C4_ExclusiveDestination ==
    /\ \A c \in Active : ~ws[c].clobbered
    /\ \A x \in DOMAIN disk : Cardinality(disk[x].open) <= 1

\* C4 as amended: the file a call opens is the one its own generated name
\* names in the working directory, whether or not it exists already; every
\* file is held open, and was written, only by calls whose generated name is
\* the name of that file, so that two writers share a destination only when
\* they generated the same name.
C4_OwnNameOnly ==
    /\ \A c \in Active :
          ws[c].opened # NoPath =>
              ws[c].opened = process_cwd \o <<sep>> \o fileName[c]
    /\ \A x \in DOMAIN disk :
          /\ \A c \in disk[x].open : x = process_cwd \o <<sep>> \o fileName[c]
          /\ \A i \in 1..Len(disk[x].content) :
                disk[x].content[i].by \in Active =>
                    x = process_cwd \o <<sep>> \o fileName[disk[x].content[i].by]
    /\ \A c1, c2 \in Active :
          (ws[c1].state = "open" /\ ws[c2].state = "open"
             /\ ws[c1].opened = ws[c2].opened) => fileName[c1] = fileName[c2]

C4_Witness ==
    \E c1, c2 \in Active :
        /\ c1 # c2
        /\ ws[c1].state = "open" /\ ws[c2].state = "open"
        /\ ws[c1].opened = ws[c2].opened
        /\ zip[c1].out # <<>> /\ zip[c2].out # <<>>

\* The entry name the archive format asks for: the segments of the file below
\* the parent of the scan root, joined by "/"; none when the scan root is the
\* root of the file system and so has no name.
ExpectedEntryName(directoryPath, file) ==
    LET root == pathResolve(directoryPath).segs
        f    == pathResolve(file).segs
    IN  JoinSegs(SubSeq(f, Len(root), Len(f)), <<"/">>)

\* C5: for every directory input and every file of its scan, an entry is
\* added whose name is the file's path relative to the parent of the scan
\* root, with "/" as the only separator, no leading "/", and the scan root's
\* own name in front.
C5_EntryNames ==
    \A c \in Active :
        (scan[c].called /\ scan[c].error = "none") =>
            /\ Len(zip[c].entries) = Len(scan[c].files)
            /\ \A i \in 1..Len(zip[c].entries) :
                 LET name == zip[c].entries[i].metadataPath
                     root == pathResolve(scan[c].directoryPath).segs
                 IN  /\ root # <<>>
                     /\ name = ExpectedEntryName(scan[c].directoryPath, scan[c].files[i])
                     /\ \A k \in 1..Len(name) : name[k] # "\\"
                     /\ name[1] # "/"
                     /\ SubSeq(name, 1, Len(Last(root)) + 1) = Append(Last(root), "/")

\* C6: when a directory call has resolved, the ZipFile got exactly one entry
\* per file of the scan, in the order of the scan, each read from that file,
\* and it wrote exactly these entries, in that order, before the end of the
\* archive.
C6_OneEntryPerScannedFile ==
    \A c \in Active :
        ResolvedTemporary(c) =>
            /\ Len(zip[c].entries) = Len(scan[c].files)
            /\ Len(zip[c].out) = Len(scan[c].files)
            /\ \A i \in 1..Len(scan[c].files) :
                 /\ zip[c].entries[i].realPath = scan[c].files[i]
                 /\ zip[c].out[i] = zip[c].entries[i].metadataPath

C6_Witness ==
    \E c \in Active :
        /\ ResolvedTemporary(c)
        /\ Len(scan[c].files) >= 2
        /\ zip[c].out[1] # zip[c].out[2]

\* An empty directory gives an archive without entries.
C6_EmptyDirectoryReached ==
    \E c \in Active :
        /\ ResolvedTemporary(c)
        /\ input[c] = <<"e">>
        /\ zip[c].out = <<>>

\* C7: when the scan reports an error, the call is rejected with that error,
\* no file list is kept, no name is generated, no archive and no write stream
\* exist, and no file of the working directory was created or touched.
C7_ScanErrorRejects ==
    \A c \in Active :
        (scan[c].called /\ scan[c].error # "none") =>
            /\ outcome[c] = [kind |-> "rejected", isTemporary |-> FALSE,
                             path |-> NoPath, error |-> scan[c].error]
            /\ scan[c].files = <<>>
            /\ fileName[c] = NoPath
            /\ zip[c] = NoZip
            /\ ws[c] = NoWs
            /\ \A x \in DOMAIN disk : disk[x] = ForeignFile

C7_Witness ==
    \E c \in Active :
        /\ scan[c].called
        /\ scan[c].error = "EACCES"
        /\ outcome[c].kind = "rejected"
        /\ disk # <<>>

Settled(o) == o.kind \in {"resolved", "rejected", "thrown"}

\* C8: a settled call keeps its outcome, and a call whose write stream has
\* emitted "error" is rejected with that error, also after the "close" that
\* follows.
C8_ErrorStaysRejected ==
    [][\A c \in Active :
          /\ Settled(outcome[c]) => outcome'[c] = outcome[c]
          /\ ws'[c].state \in {"errored", "errclosed"} =>
                outcome'[c] = [kind |-> "rejected", isTemporary |-> FALSE,
                               path |-> NoPath, error |-> ws'[c].error]]_vars

C8_Witness ==
    \E c \in Active :
        /\ ws[c].state = "errclosed"
        /\ ws[c].error = "ENOSPC"
        /\ outcome[c].kind = "rejected"
        /\ zip[c].out # <<>>

StatErrors == {"ENOENT", "EACCES"}

\* C9: a call whose stat fails ends in the step of the call with the error of
\* the stat thrown to its caller; it has no descriptor, starts no scan and
\* creates no file.
C9_StatFailureThrows ==
    [][\A c \in Active :
          /\ ( /\ pc[c] = "idle"
               /\ pc'[c] # "idle"
               /\ lstatKind(input'[c]) = "missing" )
             => /\ outcome'[c].kind = "thrown"
                /\ outcome'[c].error \in StatErrors
          /\ outcome'[c].kind = "thrown"
             => /\ outcome'[c].path = NoPath
                /\ lstatKind(input'[c]) # "missing" => outcome'[c].error = "EACCES"
                /\ pc'[c] = "done"
                /\ scan'[c] = NoScan /\ fileName'[c] = NoPath
                /\ zip'[c] = NoZip /\ ws'[c] = NoWs
                /\ disk' = disk]_vars

C9_Witness ==
    \E c \in Active :
        /\ outcome[c] = Thrown("ENOENT")
        /\ input[c] = <<"x">>

Alphanumeric ==
    { "A","B","C","D","E","F","G","H","I","J","K","L","M","N","O","P","Q","R","S",
      "T","U","V","W","X","Y","Z","a","b","c","d","e","f","g","h","i","j","k","l",
      "m","n","o","p","q","r","s","t","u","v","w","x","y","z","0","1","2","3","4",
      "5","6","7","8","9" }

\* C10: a generated name is 15 characters of A-Z, a-z, 0-9 followed by
\* ".zip", and the path of a temporary descriptor is the working directory,
\* a separator and that name.
C10_TempFileName ==
    \A c \in Active :
        /\ fileName[c] # NoPath =>
              /\ Len(fileName[c]) = 19
              /\ \A i \in 1..15 : fileName[c][i] \in Alphanumeric
              /\ SubSeq(fileName[c], 16, 19) = <<".", "z", "i", "p">>
        /\ ResolvedTemporary(c) =>
              outcome[c].path = process_cwd \o <<sep>> \o fileName[c]

C10_Witness ==
    \E c \in Active :
        /\ ResolvedTemporary(c)
        /\ fileName[c] # TempFileName(1)

----------------------------------------------------------------------------
(* appNameParam *)

RECURSIVE ReplaceFirst(_, _, _)
\* String.prototype.replace with a string as pattern: the first occurrence of
\* the character pat becomes rep, the rest of the string is kept.
ReplaceFirst(str, pat, rep) ==
    IF str = <<>> THEN <<>>
    ELSE IF Head(str) = pat THEN rep \o Tail(str)
    ELSE <<Head(str)>> \o ReplaceFirst(Tail(str), pat, rep)

\* appName.replace("/", "~~")
appNameParam(name) == ReplaceFirst(name, "/", <<"~", "~">>)

\* The characters of the app names of the model.
NameChars == {"a", "b", "/"}

\* The app names: every string of NameChars up to MaxNameLen characters.
AppNames == UNION { [1..n -> NameChars] : n \in 0..MaxNameLen }

InitName ==
    /\ platform = "posix"
    /\ deleted = {}
    /\ disk = <<>>
    /\ pc = [c \in Calls |-> "idle"]
    /\ input = [c \in Calls |-> NoPath]
    /\ filePath = [c \in Calls |-> NoPath]
    /\ outcome = [c \in Calls |-> NotCalled]
    /\ scan = [c \in Calls |-> NoScan]
    /\ fileName = [c \in Calls |-> NoPath]
    /\ zip = [c \in Calls |-> NoZip]
    /\ ws = [c \in Calls |-> NoWs]
    /\ appName \in AppNames
    /\ appParam = NotReturned

\* this.appNameParam(appName), as the request methods call it.
AppNameParamCall ==
    /\ ~appParam.returned
    /\ appParam' = [returned |-> TRUE, value |-> appNameParam(appName)]
    /\ UNCHANGED <<platform, deleted, disk, pc, input, filePath, outcome, scan,
                   fileName, zip, ws, appName>>

NextName == AppNameParamCall

SpecName == InitName /\ [][NextName]_vars

\* The name with every "/" replaced by "~~".
EverySlashEncoded(name) ==
    LET piece(ch) == IF ch = "/" THEN <<"~", "~">> ELSE <<ch>>
        F[i \in 0..Len(name)] == IF i = 0 THEN <<>> ELSE F[i - 1] \o piece(name[i])
    IN  F[Len(name)]

\* C11: what appNameParam returns is the name with every "/" encoded as "~~":
\* it holds no "/", and a name without "/" comes back unchanged.
C11_EverySlashEncoded ==
    appParam.returned =>
        /\ appParam.value = EverySlashEncoded(appName)
        /\ \A i \in 1..Len(appParam.value) : appParam.value[i] # "/"
        /\ (\A i \in 1..Len(appName) : appName[i] # "/") => appParam.value = appName

====
